---- MODULE Spec2Model ----
(***************************************************************************)
(* One-time secret service (app/main.py): the lifecycle of a secret over   *)
(* the durable store (table `secrets`), the Redis fast-path cache and the  *)
(* audit table `secret_logs`, under concurrent create / read / delete      *)
(* requests.  Every statement of a handler that touches the store or the   *)
(* cache is one atomic step; purely local statements are folded into the   *)
(* step that precedes them.                                                *)
(*                                                                         *)
(* Environment assumptions:                                                *)
(*  - retrieval keys are uuid4 values: a read or delete request names      *)
(*    a key that a create request has returned to its caller;              *)
(*  - the store answers every query and commit, except that the insert     *)
(*    into secret_logs may fail; a Redis call may fail (connection error); *)
(*  - a cache entry may vanish at any time (eviction, restart) and         *)
(*    vanishes CACHE_TTL seconds after it was written;                     *)
(*  - stored payloads stay intact under Spec and may be corrupted under    *)
(*    SpecCorrupt.                                                         *)
(***************************************************************************)
EXTENDS Integers, Sequences, FiniteSets, TLC

\* ---------------------------------------------------------------- bounds
MaxKeys == 1      \* create requests (each draws a fresh uuid4)
MaxReqs == 3      \* read and delete requests
MaxTicks == 1     \* clock advances

\* ------------------------------------------------------ program constants
CACHE_TTL == 300  \* redis_client.setex(..., 300, ...)

\* ------------------------------------------------------------ value space
NoneVal == <<>>                   \* Python None; a value v is <<v>>
Keys == 1..MaxKeys                \* uuid4 values, in order of issue
SecretInputs == {"hello", "bye"}  \* SecretCreate.secret
PassInputs == {NoneVal, <<"p1">>} \* SecretCreate.passphrase
TtlInputs == {NoneVal, <<0>>, <<1>>}   \* SecretCreate.ttl_seconds
DeleteInputs == {NoneVal, <<"p1">>, <<"wrong">>}   \* ?passphrase=
TickSteps == {2, CACHE_TTL}       \* seconds the clock may jump

VARIABLES
    db,      \* table secrets: key -> row, or NoneVal when no row
    redis,   \* Redis: key -> [value, until], or NoneVal
    logs,    \* table secret_logs, in insertion order
    now,     \* datetime.utcnow(), in seconds
    ticks,   \* number of clock advances so far
    creates, \* create requests, in order of arrival
    reqs     \* read and delete requests, in order of arrival

vars == <<db, redis, logs, now, ticks, creates, reqs>>

\* --------------------------------------------------------------- helpers
\* Python truthiness of an Optional[str], an Optional[int], an object
TruthyStr(v) == v # NoneVal /\ v # <<"">>
TruthyInt(v) == v # NoneVal /\ v # <<0>>
Truthy(v) == v # NoneVal

\* crypto.create_access_token({"secret": s}): a signed token
create_access_token(data) == [claims |-> data, sig |-> "HS256"]

\* jwt.decode(token, SECRET_KEY, algorithms=["HS256"])
jwt_decode(token) ==
    IF token.sig = "HS256" THEN token.claims ELSE NoneVal

\* crypto.get_password_hash / crypto.verify_password
get_password_hash(p) == <<"hash", p[1]>>
verify_password(p, h) == p # NoneVal /\ h = <<"hash", p[1]>>

\* json.dumps / json.loads
json_dumps(obj) == <<"json", obj>>
json_loads(s) == s[2]

\* datetime.isoformat
isoformat(t) == <<"iso", t>>

\* redis_client.get(key): None once the entry's time to live has elapsed
redis_get(k) ==
    IF k \in DOMAIN redis /\ redis[k] # NoneVal /\ now < redis[k].until
    THEN redis[k].value ELSE NoneVal

\* redis_client.delete(key)
redis_delete(k) ==
    IF k \in DOMAIN redis THEN [redis EXCEPT ![k] = NoneVal] ELSE redis

\* redis_client.setex(key, ttl, value)
redis_setex(k, ttl, v) ==
    [redis EXCEPT ![k] = [value |-> v, until |-> now + ttl]]

HasRow(k) == k \in DOMAIN db /\ db[k] # NoneVal

\* (mutation) the query forgets the is_deleted filter
QueryActive_IgnoresDeleted(k) == HasRow(k) /\ db[k].is_accessed = 0

\* read_secret's query: secret_key = k, is_accessed = 0, is_deleted = 0
QueryActive(k) ==
    HasRow(k) /\ db[k].is_accessed = 0 /\ db[k].is_deleted = 0

\* delete_secret's query: secret_key = k, is_deleted = 0
QueryNotDeleted(k) == HasRow(k) /\ db[k].is_deleted = 0

\* (mutation) the comparison is the wrong way round
IsExpired_Reversed(k) ==
    Truthy(db[k].expires_at) /\ db[k].expires_at[1] > now

\* db_secret.expires_at and db_secret.expires_at < datetime.utcnow()
IsExpired(k) ==
    Truthy(db[k].expires_at) /\ db[k].expires_at[1] < now

\* models.SecretLog(...); db.add; db.commit
LogEntry(k, action, meta) ==
    [secret_id |-> k, action |-> action, log_metadata |-> meta]

\* ----------------------------------------------------------------- state
Init ==
    /\ db = [k \in Keys |-> NoneVal]
    /\ redis = [k \in Keys |-> NoneVal]
    /\ logs = <<>>
    /\ now = 0
    /\ ticks = 0
    /\ creates = <<>>
    /\ reqs = <<>>

\* the response leaves; the handler's locals are gone
Finish(r, status, body) ==
    [r EXCEPT !.pc = "done", !.status = status, !.body = body,
              !.passphrase = NoneVal, !.cached = NoneVal]

\* keys a client can name: returned by a create request
Known == {creates[i].key : i \in {j \in DOMAIN creates :
                                    creates[j].status = 200}}

\* history recorded when a read or delete request for key k arrives (used
\* only to state properties): afterRead, a read of k had returned the
\* secret; afterDelete, a delete of k had returned secret_deleted; expired,
\* the secret's expires_at was in the past; path, how the cache lookup of a
\* read went ("cache" hit, "store" miss, "cache_fail" connection error) and
\* whether a delete found an entry to evict ("evicted", "absent")
ReadDone(k) == \E j \in DOMAIN reqs :
    reqs[j].op = "read" /\ reqs[j].key = k /\ reqs[j].status = 200
DeleteDone(k) == \E j \in DOMAIN reqs :
    reqs[j].op = "delete" /\ reqs[j].key = k /\ reqs[j].status = 200

PastExpiry(k) ==
    /\ k \in DOMAIN db /\ db[k] # NoneVal
    /\ db[k].expires_at # NoneVal /\ db[k].expires_at[1] < now

NewReq(op, k, p, pc) ==
    [op |-> op, key |-> k, passphrase |-> p, pc |-> pc, cached |-> NoneVal,
     status |-> 0, body |-> NoneVal, path |-> "none",
     afterRead |-> ReadDone(k), afterDelete |-> DeleteDone(k),
     expired |-> PastExpiry(k)]

\* ---------------------------------------------------------- create_secret
\* (mutation) the row is added to the session but its commit is left for
\* the end of the handler
CreatePersist_NoCommit(s, p, t) ==
    /\ Len(creates) < MaxKeys
    /\ creates' = Append(creates,
           [key |-> Len(creates) + 1, secret |-> s, passphrase |-> p,
            ttl_seconds |-> t,
            expires_at |-> IF TruthyInt(t) THEN <<now + t[1]>> ELSE NoneVal,
            cached |-> NoneVal,
            pc |-> "setex", status |-> 0, body |-> NoneVal])
    /\ UNCHANGED <<db, redis, logs, now, ticks, reqs>>

\* lines 46-61: uuid4, expires_at, insert into secrets, commit
CreatePersist(s, p, t) ==
    /\ Len(creates) < MaxKeys
    /\ LET key == Len(creates) + 1
           expires_at == IF TruthyInt(t) THEN <<now + t[1]>> ELSE NoneVal
       IN /\ db' = [db EXCEPT ![key] =
                     [encrypted_secret |-> create_access_token([secret |-> s]),
                      passphrase_hash |-> IF TruthyStr(p) THEN get_password_hash(p)
                                                       ELSE NoneVal,
                      expires_at |-> expires_at,
                      is_accessed |-> 0,
                      is_deleted |-> 0]]
          /\ creates' = Append(creates,
                     [key |-> key, secret |-> s, passphrase |-> p,
                      ttl_seconds |-> t, expires_at |-> expires_at,
                      cached |-> NoneVal,
                      pc |-> "setex", status |-> 0, body |-> NoneVal])
    /\ UNCHANGED <<redis, logs, now, ticks, reqs>>

\* lines 64-72: mirror the plaintext in Redis for 5 minutes
CreateCache(i) ==
    /\ creates[i].pc = "setex"
    /\ LET c == creates[i]
       IN redis' = redis_setex(c.key, CACHE_TTL,
                     json_dumps([secret |-> c.secret,
                                 passphrase |-> c.passphrase,
                                 expires_at |-> IF Truthy(c.expires_at)
                                                THEN <<isoformat(c.expires_at[1])>>
                                                ELSE NoneVal]))
    /\ creates' = [creates EXCEPT ![i].pc = "log"]
    /\ UNCHANGED <<db, logs, now, ticks, reqs>>

\* lines 64-72 raising redis.ConnectionError: the request ends in a 500
CreateCacheFail(i) ==
    /\ creates[i].pc = "setex"
    /\ creates' = [creates EXCEPT ![i] = Finish(@, 500, NoneVal)]
    /\ UNCHANGED <<db, redis, logs, now, ticks, reqs>>

\* lines 75-87: audit entry `create`, commit, return the key
CreateLog(i) ==
    /\ creates[i].pc = "log"
    /\ LET c == creates[i]
       IN /\ logs' = Append(logs, LogEntry(c.key, "create",
                       json_dumps([ttl_seconds |-> c.ttl_seconds,
                                   has_passphrase |-> TruthyStr(c.passphrase)])))
          /\ creates' = [creates EXCEPT ![i] = Finish(@, 200, <<c.key>>)]
    /\ UNCHANGED <<db, redis, now, ticks, reqs>>

\* lines 84-85 raising: the insert into secret_logs fails, 500
CreateLogFail(i) ==
    /\ creates[i].pc = "log"
    /\ creates' = [creates EXCEPT ![i] = Finish(@, 500, NoneVal)]
    /\ UNCHANGED <<db, redis, logs, now, ticks, reqs>>

\* ------------------------------------------------------------ read_secret
\* line 98-99: a request arrives and looks the key up in Redis
ReadCacheGet(k) ==
    /\ Len(reqs) < MaxReqs
    /\ k \in Known
    /\ LET cached_secret == redis_get(k)
           r == NewReq("read", k, NoneVal,
                       IF Truthy(cached_secret) THEN "cache_del" ELSE "query")
       IN reqs' = Append(reqs, [r EXCEPT !.cached = cached_secret,
                     !.path = IF Truthy(cached_secret) THEN "cache"
                                                       ELSE "store"])
    /\ UNCHANGED <<db, redis, logs, now, ticks, creates>>

\* line 98 raising redis.ConnectionError: nothing catches it, 500
ReadCacheGetFail(k) ==
    /\ Len(reqs) < MaxReqs
    /\ k \in Known
    /\ reqs' = Append(reqs, [Finish(NewReq("read", k, NoneVal, "done"),
                                    500, NoneVal)
                               EXCEPT !.path = "cache_fail"])
    /\ UNCHANGED <<db, redis, logs, now, ticks, creates>>

\* (mutation) the cache hit returns without deleting the entry
ReadCacheDelete_KeepsEntry(i) ==
    /\ reqs[i].op = "read" /\ reqs[i].pc = "cache_del"
    /\ reqs' = [reqs EXCEPT ![i] =
                  Finish(@, 200, <<json_loads(reqs[i].cached).secret>>)]
    /\ UNCHANGED <<db, redis, logs, now, ticks, creates>>

\* lines 100-102: cache hit: delete the entry, return the plaintext
ReadCacheDelete(i) ==
    /\ reqs[i].op = "read" /\ reqs[i].pc = "cache_del"
    /\ LET secret_data == json_loads(reqs[i].cached)
       IN reqs' = [reqs EXCEPT ![i] =
                     Finish(@, 200, <<secret_data.secret>>)]
    /\ redis' = redis_delete(reqs[i].key)
    /\ UNCHANGED <<db, logs, now, ticks, creates>>

\* line 101 raising redis.ConnectionError, 500
ReadCacheDeleteFail(i) ==
    /\ reqs[i].op = "read" /\ reqs[i].pc = "cache_del"
    /\ reqs' = [reqs EXCEPT ![i] =
                  Finish(@, 500, NoneVal)]
    /\ UNCHANGED <<db, redis, logs, now, ticks, creates>>

\* lines 105-115: query the active row, 404 when absent or expired
ReadQuery(i) ==
    /\ reqs[i].op = "read" /\ reqs[i].pc = "query"
    /\ LET k == reqs[i].key
       IN reqs' = [reqs EXCEPT ![i] =
            IF ~QueryActive(k) THEN Finish(@, 404, NoneVal)
            ELSE IF IsExpired(k) THEN Finish(@, 404, NoneVal)
            ELSE [@ EXCEPT !.pc = "mark"]]
    /\ UNCHANGED <<db, redis, logs, now, ticks, creates>>

\* (mutation) the commit writes the whole row as it was fetched
ReadMark_StaleRow(i) ==
    /\ reqs[i].op = "read" /\ reqs[i].pc = "mark"
    /\ db' = [db EXCEPT ![reqs[i].key].is_accessed = 1,
                        ![reqs[i].key].is_deleted = 0]
    /\ reqs' = [reqs EXCEPT ![i].pc = "log"]
    /\ UNCHANGED <<redis, logs, now, ticks, creates>>

\* (mutation) the flag is set on the object but never committed
ReadMark_NoCommit(i) ==
    /\ reqs[i].op = "read" /\ reqs[i].pc = "mark"
    /\ reqs' = [reqs EXCEPT ![i].pc = "log"]
    /\ UNCHANGED <<db, redis, logs, now, ticks, creates>>

\* lines 118-119: db_secret.is_accessed = 1; commit
ReadMark(i) ==
    /\ reqs[i].op = "read" /\ reqs[i].pc = "mark"
    /\ db' = [db EXCEPT ![reqs[i].key].is_accessed = 1]
    /\ reqs' = [reqs EXCEPT ![i].pc = "log"]
    /\ UNCHANGED <<redis, logs, now, ticks, creates>>

\* lines 122-130: audit entry `read`, commit, decode and return (a token
\* that does not verify raises JWTError: 500)
ReadLog(i) ==
    /\ reqs[i].op = "read" /\ reqs[i].pc = "log"
    /\ LET k == reqs[i].key
           payload == jwt_decode(db[k].encrypted_secret)
       IN /\ logs' = Append(logs, LogEntry(k, "read", NoneVal))
          /\ reqs' = [reqs EXCEPT ![i] =
                IF payload = NoneVal
                THEN Finish(@, 500, <<"JWTError">>)
                ELSE Finish(@, 200, <<payload.secret>>)]
    /\ UNCHANGED <<db, redis, now, ticks, creates>>

\* lines 127-128 raising: the insert into secret_logs fails, 500
ReadLogFail(i) ==
    /\ reqs[i].op = "read" /\ reqs[i].pc = "log"
    /\ reqs' = [reqs EXCEPT ![i] = Finish(@, 500, NoneVal)]
    /\ UNCHANGED <<db, redis, logs, now, ticks, creates>>

\* ---------------------------------------------------------- delete_secret
\* (mutation) the eviction is left for after the passphrase check
DeleteEvict_NoEvict(k, p) ==
    /\ Len(reqs) < MaxReqs
    /\ k \in Known
    /\ reqs' = Append(reqs, [NewReq("delete", k, p, "query")
                               EXCEPT !.path = IF Truthy(redis_get(k))
                                               THEN "evicted" ELSE "absent"])
    /\ UNCHANGED <<db, redis, logs, now, ticks, creates>>

\* line 142: a request arrives and evicts the cache entry
DeleteEvict(k, p) ==
    /\ Len(reqs) < MaxReqs
    /\ k \in Known
    /\ redis' = redis_delete(k)
    /\ reqs' = Append(reqs, [NewReq("delete", k, p, "query")
                               EXCEPT !.path = IF Truthy(redis_get(k))
                                               THEN "evicted" ELSE "absent"])
    /\ UNCHANGED <<db, logs, now, ticks, creates>>

\* line 142 raising redis.ConnectionError, 500
DeleteEvictFail(k, p) ==
    /\ Len(reqs) < MaxReqs
    /\ k \in Known
    /\ reqs' = Append(reqs, Finish(NewReq("delete", k, p, "done"),
                                   500, NoneVal))
    /\ UNCHANGED <<db, redis, logs, now, ticks, creates>>

\* (mutation) the passphrase is never verified
DeleteQuery_NoVerify(i) ==
    /\ reqs[i].op = "delete" /\ reqs[i].pc = "query"
    /\ reqs' = [reqs EXCEPT ![i] =
          IF ~QueryNotDeleted(reqs[i].key) THEN Finish(@, 404, NoneVal)
          ELSE [@ EXCEPT !.pc = "mark"]]
    /\ UNCHANGED <<db, redis, logs, now, ticks, creates>>

\* lines 145-154: query the undeleted row, 404 / 403
DeleteQuery(i) ==
    /\ reqs[i].op = "delete" /\ reqs[i].pc = "query"
    /\ LET k == reqs[i].key
       IN reqs' = [reqs EXCEPT ![i] =
            IF ~QueryNotDeleted(k) THEN Finish(@, 404, NoneVal)
            ELSE IF Truthy(db[k].passphrase_hash)
                    /\ ~verify_password(reqs[i].passphrase,
                                        db[k].passphrase_hash)
                 THEN Finish(@, 403, NoneVal)
            ELSE [@ EXCEPT !.pc = "mark"]]
    /\ UNCHANGED <<db, redis, logs, now, ticks, creates>>

\* (mutation) marking deleted clears the accessed flag
DeleteMark_ClearsAccessed(i) ==
    /\ reqs[i].op = "delete" /\ reqs[i].pc = "mark"
    /\ db' = [db EXCEPT ![reqs[i].key].is_deleted = 1,
                        ![reqs[i].key].is_accessed = 0]
    /\ reqs' = [reqs EXCEPT ![i].pc = "log"]
    /\ UNCHANGED <<redis, logs, now, ticks, creates>>

\* lines 157-158: db_secret.is_deleted = 1; commit
DeleteMark(i) ==
    /\ reqs[i].op = "delete" /\ reqs[i].pc = "mark"
    /\ db' = [db EXCEPT ![reqs[i].key].is_deleted = 1]
    /\ reqs' = [reqs EXCEPT ![i].pc = "log"]
    /\ UNCHANGED <<redis, logs, now, ticks, creates>>

\* lines 161-170: audit entry `delete`, commit, return secret_deleted
DeleteLog(i) ==
    /\ reqs[i].op = "delete" /\ reqs[i].pc = "log"
    /\ logs' = Append(logs, LogEntry(reqs[i].key, "delete",
                 json_dumps([used_passphrase |-> TruthyStr(reqs[i].passphrase)])))
    /\ reqs' = [reqs EXCEPT ![i] = Finish(@, 200, <<"secret_deleted">>)]
    /\ UNCHANGED <<db, redis, now, ticks, creates>>

\* lines 167-168 raising: the insert into secret_logs fails, 500
DeleteLogFail(i) ==
    /\ reqs[i].op = "delete" /\ reqs[i].pc = "log"
    /\ reqs' = [reqs EXCEPT ![i] = Finish(@, 500, NoneVal)]
    /\ UNCHANGED <<db, redis, logs, now, ticks, creates>>

\* ------------------------------------------------------------ environment
\* the clock advances (from the first create request on: what the clock
\* shows before any secret exists is immaterial); Redis drops the entries
\* whose time to live has elapsed
Tick(d) ==
    /\ ticks < MaxTicks
    /\ creates # <<>>
    /\ now' = now + d
    /\ ticks' = ticks + 1
    /\ redis' = [k \in DOMAIN redis |->
                   IF redis[k] # NoneVal /\ redis[k].until <= now + d
                   THEN NoneVal ELSE redis[k]]
    /\ UNCHANGED <<db, logs, creates, reqs>>

\* Redis loses an entry (eviction, restart)
CacheLoss(k) ==
    /\ redis[k] # NoneVal
    /\ redis' = [redis EXCEPT ![k] = NoneVal]
    /\ UNCHANGED <<db, logs, now, ticks, creates, reqs>>

Next ==
    \/ \E s \in SecretInputs, p \in PassInputs, t \in TtlInputs :
          CreatePersist(s, p, t)
    \/ \E i \in DOMAIN creates :
          CreateCache(i) \/ CreateCacheFail(i) \/ CreateLog(i) \/ CreateLogFail(i)
    \/ \E k \in Keys :
          ReadCacheGet(k) \/ ReadCacheGetFail(k)
    \/ \E k \in Keys, p \in DeleteInputs :
          DeleteEvict(k, p) \/ DeleteEvictFail(k, p)
    \/ \E i \in DOMAIN reqs :
          \/ ReadCacheDelete(i) \/ ReadCacheDeleteFail(i)
          \/ ReadQuery(i) \/ ReadMark(i) \/ ReadLog(i) \/ ReadLogFail(i)
          \/ DeleteQuery(i) \/ DeleteMark(i) \/ DeleteLog(i) \/ DeleteLogFail(i)
    \/ \E d \in TickSteps : Tick(d)
    \/ \E k \in Keys : CacheLoss(k)

Spec == Init /\ [][Next]_vars

\* the stored payload of a secret is corrupted (disk fault, tampering): its
\* signature no longer verifies.  Taken to happen at rest, while no request
\* for the key is in flight, so that a read sees one payload from its first
\* statement to its last
Corrupt(k) ==
    /\ HasRow(k)
    /\ \A i \in DOMAIN reqs : reqs[i].key = k => reqs[i].pc = "done"
    /\ db[k].encrypted_secret.sig = "HS256"
    /\ db' = [db EXCEPT ![k].encrypted_secret.sig = "invalid"]
    /\ UNCHANGED <<redis, logs, now, ticks, creates, reqs>>

NextCorrupt == Next \/ \E k \in Keys : Corrupt(k)

\* the service with a store whose payloads may get corrupted
SpecCorrupt == Init /\ [][NextCorrupt]_vars

\* ================================================================ claims
Reads == {i \in DOMAIN reqs : reqs[i].op = "read"}
Deletes == {i \in DOMAIN reqs : reqs[i].op = "delete"}
ReadsOf(k) == {i \in Reads : reqs[i].key = k}
LogsOf(k, action) == {n \in DOMAIN logs :
    logs[n].secret_id = k /\ logs[n].action = action}
\* C1: a read request that arrives after some read of the same key has
\* returned the secret never returns the secret (it ends in NotFound, or in
\* a server error when a backing service fails).
C1_AtMostOnce ==
    \A i \in Reads : reqs[i].afterRead => reqs[i].status # 200

\* C2: of the read requests for one key that all arrived before any read of
\* that key had returned (so they ran concurrently on a never-read secret),
\* no two return the secret.
C2_OneWinner ==
    \A i, j \in Reads :
        (i # j /\ reqs[i].key = reqs[j].key
           /\ ~reqs[i].afterRead /\ ~reqs[j].afterRead)
        => ~(reqs[i].status = 200 /\ reqs[j].status = 200)

\* C3: a read request that arrives after a delete request for its key has
\* returned secret_deleted finds neither a cache entry nor an active row: it
\* never gets past the store query and never returns the secret (it ends in
\* NotFound unless the cache lookup itself fails).
C3_ReadAfterDelete ==
    \A i \in Reads : reqs[i].afterDelete =>
        /\ reqs[i].path \in {"store", "cache_fail"}
        /\ reqs[i].pc \in {"query", "done"}
        /\ reqs[i].status \in {0, 404, 500}
        /\ (reqs[i].status = 500 => reqs[i].path = "cache_fail")

C3_Witness ==
    \E j \in Deletes, i \in Reads :
        /\ j < i /\ reqs[j].key = reqs[i].key
        /\ reqs[j].status = 200 /\ reqs[j].path = "evicted"
        /\ reqs[i].afterDelete /\ reqs[i].status = 404

\* C4 as stated: a read of a secret whose expiry is in the past when the
\* read arrives, and which no earlier read has consumed, does not return the
\* secret.
C4_ExpiredNeverReturned ==
    \A i \in Reads :
        (reqs[i].expired /\ ~reqs[i].afterRead) => reqs[i].status # 200

\* C4 amended: a read of a secret whose expiry is in the past when the read
\* arrives, and whose cache lookup finds no entry, ends at the store query
\* with NotFound.
C4_ExpiredStorePath ==
    \A i \in Reads :
        (reqs[i].expired /\ reqs[i].path = "store") =>
            /\ reqs[i].pc \in {"query", "done"}
            /\ reqs[i].status \in {0, 404}

C4_Witness ==
    \E i \in Reads :
        reqs[i].expired /\ reqs[i].path = "store" /\ reqs[i].status = 404
           /\ ~reqs[i].afterRead /\ ~reqs[i].afterDelete
           /\ db[reqs[i].key].is_accessed = 0
           /\ db[reqs[i].key].is_deleted = 0

\* C5: (step) when a delete request queries an undeleted secret that has a
\* passphrase hash, a passphrase that is not the one hashed ends the request
\* with Forbidden and leaves the store untouched, while the hashed passphrase
\* lets it proceed to mark the secret deleted; (state) a delete request past
\* its mark, and one that returned secret_deleted, has deleted = 1 in the
\* store, and no read that arrives after it returned gets the secret.
C5_Step ==
    \A i \in Deletes :
        (reqs[i].pc = "query" /\ reqs'[i] # reqs[i]
           /\ db[reqs[i].key].is_deleted = 0
           /\ db[reqs[i].key].passphrase_hash # NoneVal) =>
        IF reqs[i].passphrase # NoneVal
              /\ db[reqs[i].key].passphrase_hash[2] = reqs[i].passphrase[1]
        THEN reqs'[i].pc = "mark" /\ reqs'[i].status = 0
        ELSE reqs'[i].pc = "done" /\ reqs'[i].status = 403 /\ db' = db

C5_State ==
    /\ \A i \in Deletes :
          (reqs[i].pc = "log" \/ reqs[i].status = 200)
             => db[reqs[i].key].is_deleted = 1
    /\ \A i \in Reads :
          (reqs[i].afterDelete /\ reqs[i].pc = "done")
             => reqs[i].status \in {404, 500}

C5_ForbiddenThenDeleted == [][C5_Step]_vars /\ []C5_State

C5_Witness ==
    \E i, j \in Deletes, r \in Reads :
        /\ i < j /\ j < r
        /\ reqs[i].key = reqs[j].key /\ reqs[j].key = reqs[r].key
        /\ db[reqs[i].key].passphrase_hash # NoneVal
        /\ reqs[i].status = 403
        /\ reqs[j].status = 200 /\ ~reqs[j].afterDelete
        /\ reqs[r].afterDelete /\ reqs[r].status = 404

\* C6: every delete request that ended in Forbidden or in secret_deleted has
\* its own `delete` entry in the audit table.
C6_FailedDeleteLogged ==
    \A k \in Keys :
        Cardinality(LogsOf(k, "delete")) >=
            Cardinality({i \in Deletes : reqs[i].key = k
                                         /\ reqs[i].status \in {200, 403}})

\* C7: every read request that returned the secret has its own `read` entry
\* in the audit table.
C7_ReadLogged ==
    \A k \in Keys :
        Cardinality(LogsOf(k, "read")) >=
            Cardinality({i \in ReadsOf(k) : reqs[i].status = 200})

\* C8 as stated: once accessed = 1 or deleted = 1, no step changes either
\* flag of that secret.
C8_TerminalStep ==
    \A k \in Keys :
        (HasRow(k) /\ (db[k].is_accessed = 1 \/ db[k].is_deleted = 1)) =>
            /\ db'[k].is_accessed = db[k].is_accessed
            /\ db'[k].is_deleted = db[k].is_deleted

C8_Terminal == [][C8_TerminalStep]_vars

\* C8 amended: once accessed = 1 or deleted = 1 the only flag changes left
\* are: a delete request marks an accessed secret deleted, or a read request
\* that passed its store check while the secret was still active marks a
\* deleted secret accessed; a set flag is never cleared.
C8_AmendedStep ==
    \A k \in Keys :
        (HasRow(k) /\ (db[k].is_accessed = 1 \/ db[k].is_deleted = 1)) =>
            \/ /\ db'[k].is_accessed = db[k].is_accessed
               /\ db'[k].is_deleted = db[k].is_deleted
            \/ /\ db[k].is_accessed = 1 /\ db[k].is_deleted = 0
               /\ db'[k].is_accessed = 1 /\ db'[k].is_deleted = 1
               /\ \E i \in Deletes : /\ reqs[i].key = k
                                     /\ reqs[i].pc = "mark"
                                     /\ reqs'[i].pc = "log"
            \/ /\ db[k].is_accessed = 0 /\ db[k].is_deleted = 1
               /\ db'[k].is_accessed = 1 /\ db'[k].is_deleted = 1
               /\ \E i \in Reads : /\ reqs[i].key = k
                                   /\ reqs[i].pc = "mark"
                                   /\ reqs'[i].pc = "log"
                                   /\ ~reqs[i].afterDelete

C8_Amended == [][C8_AmendedStep]_vars

C8_Witness ==
    \E i \in Deletes :
        /\ reqs[i].afterRead /\ reqs[i].status = 200
        /\ db[reqs[i].key].is_accessed = 1
        /\ db[reqs[i].key].is_deleted = 1

\* C9: across every step, a row of the store stays, and its accessed and
\* deleted flags never go from 1 back to 0.
C9_MonotonicStep ==
    \A k \in Keys :
        HasRow(k) =>
            /\ HasRow(k)'
            /\ db'[k].is_accessed >= db[k].is_accessed
            /\ db'[k].is_deleted >= db[k].is_deleted

C9_Monotonic == [][C9_MonotonicStep]_vars

C9_Witness ==
    \E k \in Keys, i \in Reads, j \in Deletes :
        /\ HasRow(k) /\ db[k].is_accessed = 1 /\ db[k].is_deleted = 1
        /\ reqs[i].key = k /\ reqs[j].key = k
        /\ reqs[i].pc = "done" /\ reqs[j].pc = "done"

\* C10: a read request whose cache lookup fails does not end in a server
\* error.
C10_CacheFailureDegrades ==
    \A i \in Reads : reqs[i].path = "cache_fail" => reqs[i].status # 500

\* C11: when a request at its audit step finishes without the audit entry
\* having been inserted (the insert into secret_logs failed), the store is
\* left as it was and the request still ends with its normal 200 result.
C11_Step ==
    /\ \A i \in DOMAIN reqs :
          (reqs[i].pc = "log" /\ reqs'[i].pc = "done" /\ logs' = logs)
             => (db' = db /\ reqs'[i].status = 200)
    /\ \A i \in DOMAIN creates :
          (creates[i].pc = "log" /\ creates'[i].pc = "done" /\ logs' = logs)
             => (db' = db /\ creates'[i].status = 200)

C11_AuditFailureHarmless == [][C11_Step]_vars

\* C12: a read request that finds no cache entry is served from the store:
\* (step) at its query an active, unexpired row lets it proceed, its mark
\* sets accessed = 1, and its audit step, once the entry is inserted, returns
\* 200 with the plaintext submitted at creation; (state) a store-path read
\* past its mark has accessed = 1, and one that returned 200 returned the
\* submitted plaintext.
C12_Step ==
    \A i \in Reads :
        LET k == reqs[i].key
        IN /\ (reqs[i].pc = "query" /\ reqs'[i] # reqs[i]
                 /\ db[k].is_accessed = 0 /\ db[k].is_deleted = 0
                 /\ (db[k].expires_at = NoneVal \/ db[k].expires_at[1] >= now))
                => (reqs'[i].pc = "mark" /\ reqs'[i].status = 0)
           /\ (reqs[i].pc = "mark" /\ reqs'[i] # reqs[i])
                => (reqs'[i].pc = "log" /\ db'[k].is_accessed = 1)
           /\ (reqs[i].pc = "log" /\ reqs'[i].pc = "done" /\ logs' # logs)
                => (reqs'[i].status = 200
                      /\ reqs'[i].body = <<creates[k].secret>>)

C12_State ==
    \A i \in Reads :
        reqs[i].path = "store" =>
            /\ (reqs[i].pc = "log" \/ reqs[i].status = 200)
                  => db[reqs[i].key].is_accessed = 1
            /\ reqs[i].status = 200
                  => reqs[i].body = <<creates[reqs[i].key].secret>>

C12_StoreServesAfterCacheLoss == [][C12_Step]_vars /\ []C12_State

\* the first request ever made for the key is a read; the cache entry is
\* gone (evicted or timed out), and the store serves the submitted plaintext
C12_Witness ==
    /\ Len(reqs) = 1
    /\ reqs[1].op = "read" /\ reqs[1].path = "store"
    /\ ~reqs[1].expired
    /\ reqs[1].status = 200
    /\ reqs[1].body = <<"bye">>
    /\ creates[reqs[1].key].secret = "bye"
    /\ db[reqs[1].key].is_accessed = 1

\* C13: (state) a cache entry is younger than CACHE_TTL, belongs to a key
\* whose create request is past its cache write, and is absent once a read of
\* the key has returned the secret or a delete request for the key has made
\* its eviction call; (step) an absent entry appears only by the cache write
\* of the key's create request, which happens once.
C13_State ==
    \A k \in Keys :
        /\ redis[k] # NoneVal =>
              /\ now < redis[k].until
              /\ redis[k].until <= now + CACHE_TTL
              /\ k \in DOMAIN creates
              /\ creates[k].pc \in {"log", "done"}
        /\ (\E i \in DOMAIN reqs :
               /\ reqs[i].key = k
               /\ \/ reqs[i].op = "read" /\ reqs[i].status = 200
                  \/ reqs[i].op = "delete" /\ reqs[i].path # "none")
              => redis[k] = NoneVal

C13_Step ==
    \A k \in Keys :
        (redis[k] = NoneVal /\ redis'[k] # NoneVal) =>
            /\ k \in DOMAIN creates
            /\ creates[k].pc = "setex"
            /\ creates'[k].pc = "log"

C13_CacheEntryLifetime == [][C13_Step]_vars /\ []C13_State

C13_Witness ==
    \E i, j \in DOMAIN reqs :
        /\ i < j /\ reqs[i].key = reqs[j].key
        /\ reqs[i].op = "read" /\ reqs[i].path = "cache"
        /\ reqs[i].status = 200
        /\ reqs[j].pc = "done"
        /\ redis[reqs[i].key] = NoneVal

\* C14: for every key, at most one read request ever gets the plaintext of
\* the key's cache entry out of its cache lookup.
C14_AtomicTake ==
    \A k \in Keys :
        Cardinality({i \in ReadsOf(k) : reqs[i].path = "cache"}) <= 1

\* C15: for every key, at most one read request that took the store path
\* (its cache lookup found nothing) returns the secret.
C15_AtomicMark ==
    \A k \in Keys :
        Cardinality({i \in ReadsOf(k) : reqs[i].path = "store"
                                        /\ reqs[i].status = 200}) <= 1

\* C16 (under SpecCorrupt): a read request that ended because the stored
\* payload failed to decrypt left the secret with accessed = 0 and wrote no
\* `read` audit entry.
C16_DecryptBeforeMark ==
    \A i \in Reads :
        reqs[i].body = <<"JWTError">> =>
            /\ db[reqs[i].key].is_accessed = 0
            /\ LogsOf(reqs[i].key, "read") = {}

\* C17: (state) from the first statement of a delete request on, whatever
\* its outcome, the cache holds no entry for its key, and no read request
\* that arrives later is served from the cache; (step) a delete request that
\* ends in NotFound or Forbidden leaves the store as it was.
C17_State ==
    \A i \in Deletes :
        reqs[i].path # "none" =>
            /\ redis[reqs[i].key] = NoneVal
            /\ \A r \in Reads :
                  (i < r /\ reqs[r].key = reqs[i].key)
                     => reqs[r].path # "cache"

C17_Step ==
    \A i \in Deletes :
        (reqs[i].pc # "done" /\ reqs'[i].pc = "done"
           /\ reqs'[i].status \in {403, 404}) => db' = db

C17_EvictWhateverOutcome == [][C17_Step]_vars /\ []C17_State

\* a delete with a wrong passphrase evicted the entry and got Forbidden; the
\* next request, a read, is served once from the store
C17_Witness ==
    \E i \in Deletes, r \in Reads :
        /\ r = i + 1 /\ reqs[r].key = reqs[i].key
        /\ reqs[i].path = "evicted" /\ reqs[i].status = 403
        /\ ~reqs[r].afterRead
        /\ reqs[r].path = "store" /\ reqs[r].status = 200
        /\ db[reqs[r].key].is_deleted = 0

\* C18: every create request that supplied ttl_seconds, 0 included, stored
\* an expiry, namely its creation time plus ttl_seconds (a time not after
\* now plus ttl_seconds); only a request without ttl_seconds stored none.
C18_ExpiryFromTtl ==
    \A i \in DOMAIN creates :
        LET row == db[creates[i].key]
        IN IF creates[i].ttl_seconds = NoneVal
           THEN row.expires_at = NoneVal
           ELSE /\ row.expires_at # NoneVal
                /\ row.expires_at[1] <= now + creates[i].ttl_seconds[1]
                /\ row.expires_at[1] >= creates[i].ttl_seconds[1]

\* C19: in every state, a key that has a cache entry has a row in the store,
\* and every `create` audit entry names a secret that has a row in the store.
C19_StoreFirst ==
    /\ \A k \in Keys :
          redis[k] # NoneVal => (k \in DOMAIN db /\ db[k] # NoneVal)
    /\ \A n \in DOMAIN logs :
          logs[n].action = "create" =>
             (logs[n].secret_id \in DOMAIN db /\ db[logs[n].secret_id] # NoneVal)

\* a create request that failed part-way, after its cache write: the entry
\* is there, the audit entry is not, the row is
C19_Witness ==
    \E i \in DOMAIN creates :
        /\ creates[i].status = 500
        /\ redis[creates[i].key] # NoneVal
        /\ LogsOf(creates[i].key, "create") = {}
        /\ db[creates[i].key] # NoneVal

\* C20: for every secret, at most one delete request has succeeded and at
\* most one `delete` audit entry has been written, and every other finished
\* delete request for that key returned 404 or 403 (or a server error when a
\* backing service failed).
C20_OneDeleteSucceeds ==
    \A k \in Keys :
        LET done == {i \in Deletes : reqs[i].key = k /\ reqs[i].pc = "done"}
            ok   == {i \in done : reqs[i].status = 200}
        IN /\ Cardinality(ok) <= 1
           /\ Cardinality(LogsOf(k, "delete")) <= 1
           /\ ok # {} => \A i \in done \ ok : reqs[i].status \in {403, 404, 500}

====
